---- MODULE Spec2Model ----
(***************************************************************************)
(* Model of the graph-connectivity engine of AquaEBM/graph                 *)
(* (src/src/agio.rs): Interface, AudioGraphIO, edge and processor edits,   *)
(* cycle detection and dual-graph construction; and of the buffer scope    *)
(* chain (src/src/buffer.rs): LocalBufferNode, BufferNode, BufferHandle    *)
(* and LocalBufferHandle.                                                  *)
(*                                                                         *)
(* Encoding conventions                                                    *)
(*   Option<T>         a set: None is {} and Some(x) is {x}                *)
(*   NodeIndex         Global is -1, Processor(i) is the slot number i     *)
(*   Port              a record [index, node_index]                        *)
(*   Box<[Ports]>      a function from 0..n-1 to sets of Port              *)
(*   StableVec<T>      a record [next_push_index, slots] where slots is a  *)
(*                     function whose domain is the set of filled slots    *)
(*   HashSet iteration unspecified order: every order is explored          *)
(*   panic (unwrap)    the outcome "Panic"                                 *)
(*   &'a mut dyn ...   the parent of a scope is its level in the chain     *)
(*   &[T], &mut [T]    a region [level, index, from, len] of the physical  *)
(*                     buffer index owned by the scope at level            *)
(***************************************************************************)
EXTENDS Integers, Sequences, FiniteSets, TLC

VARIABLES processors, global, last, dual, chain, handle, resolved

gvars == <<processors, global, last, dual>>
bvars == <<chain, handle, resolved>>
vars == <<processors, global, last, dual, chain, handle, resolved>>

(***************************************************************************)
(* Bounds of the model.                                                    *)
(***************************************************************************)
MaxSlots == 3
MaxPorts == 1
MaxOpp == 1
MaxGlobal == 1
MaxEdges == 3
MaxDepth == 3
MaxBuffers == 1
MaxTable == 1
MaxStart == 2
MaxLen == 1

(***************************************************************************)
(* Option                                                                  *)
(***************************************************************************)
None == {}
Some(x) == {x}
unwrap(opt) == CHOOSE x \in opt : TRUE

(***************************************************************************)
(* NodeIndex and Port                                                      *)
(***************************************************************************)
Global == -1
Processor(i) == i
is_global(n) == n = Global
Port(index, node_index) == [index |-> index, node_index |-> node_index]

(***************************************************************************)
(* Interface                                                               *)
(***************************************************************************)
with_io_config(num_ports, num_opposite_ports) ==
    [ports |-> [i \in 0..(num_ports - 1) |-> {}],
     num_opposite_ports |-> num_opposite_ports]

num_ports_of(interface) == Cardinality(DOMAIN interface.ports)

Interface_with_opposite_config(interface) ==
    with_io_config(interface.num_opposite_ports, num_ports_of(interface))

Interface_get_connections(interface, index) ==
    IF index \in DOMAIN interface.ports THEN Some(interface.ports[index]) ELSE None

(***************************************************************************)
(* StableVec: slot-stable storage of the processors' Interfaces.           *)
(***************************************************************************)
StableVec_default == [next_push_index |-> 0, slots |-> <<>>]

sv_get(vec, i) == IF i \in DOMAIN vec.slots THEN Some(vec.slots[i]) ELSE None

\* lowest empty slot below next_push_index, if any
first_empty_slot_from(vec, start) ==
    LET empty == {i \in start..(vec.next_push_index - 1) : i \notin DOMAIN vec.slots}
    IN  IF empty = {} THEN None
        ELSE Some(CHOOSE i \in empty : \A j \in empty : i <= j)

sv_insert(vec, i, item) ==
    [next_push_index |-> IF i >= vec.next_push_index THEN i + 1 ELSE vec.next_push_index,
     slots |-> [j \in DOMAIN vec.slots \cup {i} |-> IF j = i THEN item ELSE vec.slots[j]]]

sv_push(vec, item) == sv_insert(vec, vec.next_push_index, item)

sv_remove(vec, i) ==
    [next_push_index |-> vec.next_push_index,
     slots |-> [j \in DOMAIN vec.slots \ {i} |-> vec.slots[j]]]

\* a variant that never reuses a freed slot
insert_at_next_empty_slot_push_only(vec, item) ==
    [vec |-> sv_push(vec, item), index |-> vec.next_push_index]

\* the result is the collection after the call and the index returned
insert_at_next_empty_slot(vec, item) ==
    LET e == first_empty_slot_from(vec, 0)
    IN  IF e # None
        THEN [vec |-> sv_insert(vec, unwrap(e), item), index |-> unwrap(e)]
        ELSE [vec |-> sv_push(vec, item), index |-> vec.next_push_index]

(***************************************************************************)
(* AudioGraphIO: self is a record [processors, global].                    *)
(***************************************************************************)
with_global_io_config(num_global_io_ports, num_opposite_global_io_ports) ==
    [processors |-> StableVec_default,
     global |-> with_io_config(num_opposite_global_io_ports, num_global_io_ports)]

with_opposite_config(self) ==
    [processors |->
        [next_push_index |-> self.processors.next_push_index,
         slots |-> [i \in DOMAIN self.processors.slots |->
                        Interface_with_opposite_config(self.processors.slots[i])]],
     global |-> Interface_with_opposite_config(self.global)]

get_node(self, index) ==
    IF is_global(index) THEN Some(self.global) ELSE sv_get(self.processors, index)

get_connections(self, port) ==
    UNION {Interface_get_connections(interface, port.index) :
              interface \in get_node(self, port.node_index)}

\* every node of the graph that exists
Nodes(self) == {Global} \cup DOMAIN self.processors.slots

\* every edge stored in the graph, as <<from, to>>
Edges(self) ==
    UNION {UNION {{<<Port(i, n), to>> : to \in unwrap(get_node(self, n)).ports[i]} :
                     i \in DOMAIN unwrap(get_node(self, n)).ports} :
              n \in Nodes(self)}


\* self with the port set addressed by port replaced by conns
set_connections(self, port, conns) ==
    IF is_global(port.node_index)
    THEN [self EXCEPT !.global.ports[port.index] = conns]
    ELSE [self EXCEPT !.processors.slots[port.node_index].ports[port.index] = conns]

(***************************************************************************)
(* connected: depth-first reachability.  The result is the set of          *)
(* outcomes [res, visited] over every iteration order of the port sets;    *)
(* res is "true", "false" or "Panic" (Index<NodeIndex> unwraps a node      *)
(* that does not exist).                                                   *)
(***************************************************************************)
RECURSIVE connected(_, _, _, _)
RECURSIVE any_port(_, _, _, _)
RECURSIVE any_ports(_, _, _, _, _)

\* ports.iter().any(|port| self.connected(port.node_index, to_node, visited))
any_port(self, conns, to_node, visited) ==
    IF conns = {} THEN {[res |-> "false", visited |-> visited]}
    ELSE UNION {UNION {IF o.res = "false"
                       THEN any_port(self, conns \ {port}, to_node, o.visited)
                       ELSE {o} :
                          o \in connected(self, port.node_index, to_node, visited)} :
                   port \in conns}

\* self[from_node].ports().iter().any(|ports| ...), from port index i on
any_ports(self, ports, i, to_node, visited) ==
    IF i \notin DOMAIN ports THEN {[res |-> "false", visited |-> visited]}
    ELSE UNION {IF o.res = "false"
                THEN any_ports(self, ports, i + 1, to_node, o.visited)
                ELSE {o} :
                   o \in any_port(self, ports[i], to_node, visited)}

connected(self, from_node, to_node, visited) ==
    IF from_node = to_node THEN {[res |-> "true", visited |-> visited]}
    ELSE IF from_node \in visited THEN {[res |-> "false", visited |-> visited]}
    ELSE IF get_node(self, from_node) = None
         THEN {[res |-> "Panic", visited |-> visited \cup {from_node}]}
         ELSE any_ports(self, unwrap(get_node(self, from_node)).ports, 0, to_node,
                        visited \cup {from_node})

(***************************************************************************)
(* Processor edits                                                         *)
(***************************************************************************)
insert_processor(self, num_ports, num_opposite_ports) ==
    LET out == insert_at_next_empty_slot(self.processors,
                                         with_io_config(num_ports, num_opposite_ports))
    IN  [self |-> [self EXCEPT !.processors = out.vec], index |-> out.index]

\* ports.retain(|port| port.node_index != NodeIndex::Processor(index))
retain(conns, index) == {port \in conns : port.node_index # Processor(index)}

purge(interface, index) ==
    [interface EXCEPT !.ports = [i \in DOMAIN interface.ports |->
                                    retain(interface.ports[i], index)]]

remove_processor(self, index) ==
    IF sv_get(self.processors, index) = None
    THEN [self |-> self, res |-> "false"]
    ELSE LET removed == sv_remove(self.processors, index)
         IN  [self |-> [self EXCEPT !.processors =
                          [removed EXCEPT !.slots =
                              [j \in DOMAIN removed.slots |-> purge(removed.slots[j], index)]]],
              res |-> "true"]

(***************************************************************************)
(* Edge edits                                                              *)
(***************************************************************************)
\* a variant whose range check of to is off by one
EdgeNotFound_off_by_one(self, from, to) ==
    [from_port |-> {Interface_get_connections(interface, from.index) # None :
                       interface \in get_node(self, from.node_index)},
     to_port |-> {to.index <= interface.num_opposite_ports :
                     interface \in get_node(self, to.node_index)}]

EdgeNotFound(self, from, to) ==
    [from_port |-> {Interface_get_connections(interface, from.index) # None :
                       interface \in get_node(self, from.node_index)},
     to_port |-> {to.index < interface.num_opposite_ports :
                     interface \in get_node(self, to.node_index)}]

is_not_error(error) == error.from_port = Some(TRUE) /\ error.to_port = Some(TRUE)

\* the outcomes of the cycle search of insert_edge; "false" when it is skipped
cycle_check(self, from, to) ==
    IF ~(is_global(from.node_index) \/ is_global(to.node_index))
    THEN {o.res : o \in connected(self, to.node_index, from.node_index, {})}
    ELSE {"false"}

\* a variant that stores the edge before the cycle search
insert_edge_store_first(self, from, to) ==
    LET error == EdgeNotFound(self, from, to)
    IN  IF is_not_error(error)
        THEN LET stored == set_connections(self, from,
                               unwrap(get_connections(self, from)) \cup {to})
             IN  {IF c = "true" THEN [self |-> stored, res |-> "CycleFound", error |-> error]
                  ELSE IF c = "Panic" THEN [self |-> stored, res |-> "Panic", error |-> error]
                  ELSE [self |-> stored,
                        res |-> IF to \in unwrap(get_connections(self, from))
                                THEN "Ok(false)" ELSE "Ok(true)",
                        error |-> error] :
                     c \in cycle_check(self, from, to)}
        ELSE {[self |-> self, res |-> "NotFound", error |-> error]}

insert_edge(self, from, to) ==
    LET error == EdgeNotFound(self, from, to)
    IN  IF is_not_error(error)
        THEN {IF c = "true" THEN [self |-> self, res |-> "CycleFound", error |-> error]
              ELSE IF c = "Panic" THEN [self |-> self, res |-> "Panic", error |-> error]
              ELSE [self |-> set_connections(self, from,
                                unwrap(get_connections(self, from)) \cup {to}),
                    res |-> IF to \in unwrap(get_connections(self, from))
                            THEN "Ok(false)" ELSE "Ok(true)",
                    error |-> error] :
                 c \in cycle_check(self, from, to)}
        ELSE {[self |-> self, res |-> "NotFound", error |-> error]}

\* a variant that empties the port set of from
remove_edge_clear(self, from, to) ==
    LET error == EdgeNotFound(self, from, to)
    IN  IF is_not_error(error)
        THEN [self |-> set_connections(self, from, {}),
              res |-> IF to \in unwrap(get_connections(self, from))
                      THEN "Ok(true)" ELSE "Ok(false)",
              error |-> error]
        ELSE [self |-> self, res |-> "NotFound", error |-> error]

remove_edge(self, from, to) ==
    LET error == EdgeNotFound(self, from, to)
    IN  IF is_not_error(error)
        THEN [self |-> set_connections(self, from,
                          unwrap(get_connections(self, from)) \ {to}),
              res |-> IF to \in unwrap(get_connections(self, from))
                      THEN "Ok(true)" ELSE "Ok(false)",
              error |-> error]
        ELSE [self |-> self, res |-> "NotFound", error |-> error]

(***************************************************************************)
(* insert_opposite_ports: builds the mirror connectivity and the           *)
(* registration order.  st is [self, registered, register_order, panicked, *)
(* depth, overflow]; the result is the set of final st over every          *)
(* iteration order.  depth is the number of calls on the stack; a call     *)
(* made at depth StackLimit ends the run with overflow (and panicked) set: *)
(* the recursion has entered more calls than the graph has nodes, so a     *)
(* node is on the stack twice, and as inputs and its iteration orders do   *)
(* not change during the run the code repeats that descent until the       *)
(* stack is exhausted.                                                     *)
(***************************************************************************)
\* more calls than any descent through distinct nodes can make
StackLimit == MaxSlots + 2

\* the arguments of the outermost call: registered = {}, register_order = []
iop_start(self) ==
    [self |-> self, registered |-> {}, register_order |-> <<>>, panicked |-> FALSE,
     depth |-> 0, overflow |-> FALSE]

RECURSIVE insert_opposite_ports(_, _, _)
RECURSIVE iop_ports(_, _, _, _)
RECURSIVE iop_conns(_, _, _, _)

\* a variant that stores the mirror connection only for a node not yet registered
iop_visit_store_when_new(st, inputs, this_port, port) ==
    IF get_connections(st.self, port) = None
    THEN {[st EXCEPT !.panicked = TRUE]}
    ELSE LET s1 == [st EXCEPT !.self = set_connections(st.self, port,
                          unwrap(get_connections(st.self, port)) \cup {this_port})]
             next_idx == port.node_index
         IN  IF next_idx \notin st.registered
             THEN {IF s.panicked THEN s
                   ELSE [s EXCEPT !.registered = @ \cup {next_idx},
                                  !.register_order = Append(@, next_idx)] :
                      s \in IF ~is_global(next_idx)
                            THEN insert_opposite_ports(s1, inputs, next_idx)
                            ELSE {s1}}
             ELSE {st}

\* a variant that appends to register_order whether or not the node is registered
iop_visit_push_always(st, inputs, this_port, port) ==
    IF get_connections(st.self, port) = None
    THEN {[st EXCEPT !.panicked = TRUE]}
    ELSE LET s1 == [st EXCEPT !.self = set_connections(st.self, port,
                          unwrap(get_connections(st.self, port)) \cup {this_port})]
             next_idx == port.node_index
         IN  IF next_idx \notin s1.registered
             THEN {IF s.panicked THEN s
                   ELSE [s EXCEPT !.registered = @ \cup {next_idx},
                                  !.register_order = Append(@, next_idx)] :
                      s \in IF ~is_global(next_idx)
                            THEN insert_opposite_ports(s1, inputs, next_idx)
                            ELSE {s1}}
             ELSE {[s1 EXCEPT !.register_order = Append(@, next_idx)]}

\* a variant that registers a node before it recurses into it
iop_visit_register_first(st, inputs, this_port, port) ==
    IF get_connections(st.self, port) = None
    THEN {[st EXCEPT !.panicked = TRUE]}
    ELSE LET s1 == [st EXCEPT !.self = set_connections(st.self, port,
                          unwrap(get_connections(st.self, port)) \cup {this_port})]
             next_idx == port.node_index
             s2 == [s1 EXCEPT !.registered = @ \cup {next_idx}]
         IN  IF next_idx \notin s1.registered
             THEN {IF s.panicked THEN s
                   ELSE [s EXCEPT !.register_order = Append(@, next_idx)] :
                      s \in IF ~is_global(next_idx)
                            THEN insert_opposite_ports(s2, inputs, next_idx)
                            ELSE {s2}}
             ELSE {s1}

\* the body of the inner loop for one port of incoming_ports
iop_visit(st, inputs, this_port, port) ==
    IF get_connections(st.self, port) = None
    THEN {[st EXCEPT !.panicked = TRUE]}
    ELSE LET s1 == [st EXCEPT !.self = set_connections(st.self, port,
                          unwrap(get_connections(st.self, port)) \cup {this_port})]
             next_idx == port.node_index
         IN  IF next_idx \notin s1.registered
             THEN {IF s.panicked THEN s
                   ELSE [s EXCEPT !.registered = @ \cup {next_idx},
                                  !.register_order = Append(@, next_idx)] :
                      s \in IF ~is_global(next_idx)
                            THEN insert_opposite_ports(s1, inputs, next_idx)
                            ELSE {s1}}
             ELSE {s1}

\* for &port in incoming_ports.iter(), in any order
iop_conns(st, inputs, this_port, conns) ==
    IF conns = {} THEN {st}
    ELSE UNION {UNION {IF s.panicked THEN {s}
                       ELSE iop_conns(s, inputs, this_port, conns \ {port}) :
                          s \in iop_visit(st, inputs, this_port, port)} :
                   port \in conns}

\* for (i, incoming_ports) in inputs[node_index].ports().iter().enumerate(), from i on
iop_ports(st, inputs, node_index, i) ==
    LET ports == unwrap(get_node(inputs, node_index)).ports
    IN  IF i \notin DOMAIN ports THEN {st}
        ELSE UNION {IF s.panicked THEN {s}
                    ELSE iop_ports(s, inputs, node_index, i + 1) :
                       s \in iop_conns(st, inputs, Port(i, node_index), ports[i])}

insert_opposite_ports(st, inputs, node_index) ==
    IF st.depth >= StackLimit
    THEN {[st EXCEPT !.panicked = TRUE, !.overflow = TRUE]}
    ELSE IF get_node(inputs, node_index) = None
    THEN {[st EXCEPT !.panicked = TRUE]}
    ELSE {[s EXCEPT !.depth = st.depth] :
             s \in iop_ports([st EXCEPT !.depth = @ + 1], inputs, node_index, 0)}


(***************************************************************************)
(* Buffer scope chain (buffer.rs).  chain is the sequence of scopes from   *)
(* the top-level one (level 1) to the innermost; a scope is a record       *)
(* [parent, buffers, inputs, outputs]: parent is None or Some(level of the *)
(* BufferNode borrowed as parent), buffers the number of OwnedBuffers of   *)
(* the scope, inputs and outputs the index tables (functions from          *)
(* 0..n-1 to Option).  A resolve operation yields NoBuffer (None),         *)
(* SomeBuffer (a region of a physical buffer) or Abort (a panic, with the  *)
(* level of the scope it happened in).                                     *)
(***************************************************************************)
\* the length of every OwnedBuffer
BufLen == MaxStart

MasterInput(i) == [tag |-> "MasterInput", i |-> i]
Master(i) == [tag |-> "Master", i |-> i]
Local(i) == [tag |-> "Local", i |-> i]
\* BufferIndex::Output wraps an OutputBufferIndex
Output(buf) == buf

NoBuffer == [kind |-> "None", reason |-> "none", level |-> 0, index |-> 0, from |-> 0, len |-> 0]
SomeBuffer(level, index, from, len) ==
    [kind |-> "Some", reason |-> "none", level |-> level, index |-> index,
     from |-> from, len |-> len]
Abort(reason, level) ==
    [kind |-> "Panic", reason |-> reason, level |-> level, index |-> 0, from |-> 0, len |-> 0]

\* LocalBufferNode { parent: None, buffers }
toplevel(buffers) == [parent |-> None, buffers |-> buffers, inputs |-> <<>>, outputs |-> <<>>]

\* BufferNode { node: self, inputs, outputs }
with_indices(node, inputs, outputs) == [node EXCEPT !.inputs = inputs, !.outputs = outputs]

\* LocalBufferNode { parent: Some(self), buffers }, self being the innermost scope
append(scopes, buffers) ==
    Append(scopes, [parent |-> Some(Len(scopes)), buffers |-> buffers,
                    inputs |-> <<>>, outputs |-> <<>>])

\* slice.get(index)
table_get(table, index) == IF index \in DOMAIN table THEN Some(table[index]) ELSE None

\* self.buffers[i]: the whole of buffer i of the scope at level
local_buffer(scopes, level, i) ==
    IF i < scopes[level].buffers THEN SomeBuffer(level, i, 0, BufLen)
    ELSE Abort("index", level)

\* &buf[start..][..len]
slice(buf, start, len) ==
    IF start > buf.len \/ len > buf.len - start THEN Abort("slice", buf.level)
    ELSE SomeBuffer(buf.level, buf.index, buf.from + start, len)

\* Option::map(|buf| &buf[self.start..][..self.len.get()])
map_window(res, pos) == IF res.kind = "Some" THEN slice(res, pos.start, pos.len) ELSE res

RECURSIVE LocalBufferNode_get_input(_, _, _)
RECURSIVE LocalBufferNode_get_input_shared(_, _, _)
RECURSIVE LocalBufferNode_get_output(_, _, _)
RECURSIVE LocalBufferNode_get_output_shared(_, _, _)
RECURSIVE BufferNode_get_input(_, _, _)
RECURSIVE BufferNode_get_input_shared(_, _, _)
RECURSIVE BufferNode_get_output(_, _, _)
RECURSIVE BufferNode_get_output_shared(_, _, _)

\* a variant that forwards MasterInput(i) to the parent's output i
LocalBufferNode_get_input_parent_output(scopes, level, buf_index) ==
    IF buf_index.tag = "MasterInput"
    THEN IF scopes[level].parent = None THEN Abort("unwrap", level)
         ELSE BufferNode_get_output(scopes, unwrap(scopes[level].parent), buf_index.i)
    ELSE LocalBufferNode_get_output(scopes, level, buf_index)

LocalBufferNode_get_input(scopes, level, buf_index) ==
    IF buf_index.tag = "MasterInput"
    THEN IF scopes[level].parent = None THEN Abort("unwrap", level)
         ELSE BufferNode_get_input(scopes, unwrap(scopes[level].parent), buf_index.i)
    ELSE LocalBufferNode_get_output(scopes, level, buf_index)

LocalBufferNode_get_input_shared(scopes, level, buf_index) ==
    IF buf_index.tag = "MasterInput"
    THEN IF scopes[level].parent = None THEN Abort("unwrap", level)
         ELSE BufferNode_get_input_shared(scopes, unwrap(scopes[level].parent), buf_index.i)
    ELSE LocalBufferNode_get_output_shared(scopes, level, buf_index)

\* a variant that yields no buffer when there is no parent
LocalBufferNode_get_output_or_none(scopes, level, buf_index) ==
    IF buf_index.tag = "Master"
    THEN IF scopes[level].parent = None THEN NoBuffer
         ELSE BufferNode_get_output(scopes, unwrap(scopes[level].parent), buf_index.i)
    ELSE local_buffer(scopes, level, buf_index.i)

LocalBufferNode_get_output(scopes, level, buf_index) ==
    IF buf_index.tag = "Master"
    THEN IF scopes[level].parent = None THEN Abort("unwrap", level)
         ELSE BufferNode_get_output(scopes, unwrap(scopes[level].parent), buf_index.i)
    ELSE local_buffer(scopes, level, buf_index.i)

LocalBufferNode_get_output_shared(scopes, level, buf_index) ==
    IF buf_index.tag = "Master"
    THEN IF scopes[level].parent = None THEN Abort("unwrap", level)
         ELSE BufferNode_get_output_shared(scopes, unwrap(scopes[level].parent), buf_index.i)
    ELSE local_buffer(scopes, level, buf_index.i)

\* self.inputs.get(index).and_then(|maybe_index| maybe_index.and_then(...))
BufferNode_get_input(scopes, level, index) ==
    LET maybe_index == UNION table_get(scopes[level].inputs, index)
    IN  IF maybe_index = None THEN NoBuffer
        ELSE LocalBufferNode_get_input(scopes, level, unwrap(maybe_index))

BufferNode_get_input_shared(scopes, level, index) ==
    LET maybe_buf_index == UNION table_get(scopes[level].inputs, index)
    IN  IF maybe_buf_index = None THEN NoBuffer
        ELSE LocalBufferNode_get_input_shared(scopes, level, unwrap(maybe_buf_index))

BufferNode_get_output(scopes, level, index) ==
    LET maybe_index == UNION table_get(scopes[level].outputs, index)
    IN  IF maybe_index = None THEN NoBuffer
        ELSE LocalBufferNode_get_output(scopes, level, unwrap(maybe_index))

\* a variant that resolves an unconnected port to the first local buffer
BufferNode_get_output_shared_or_local(scopes, level, index) ==
    LET maybe_buf_index == UNION table_get(scopes[level].outputs, index)
    IN  IF maybe_buf_index = None
        THEN LocalBufferNode_get_output_shared(scopes, level, Local(0))
        ELSE LocalBufferNode_get_output_shared(scopes, level, unwrap(maybe_buf_index))

BufferNode_get_output_shared(scopes, level, index) ==
    LET maybe_buf_index == UNION table_get(scopes[level].outputs, index)
    IN  IF maybe_buf_index = None THEN NoBuffer
        ELSE LocalBufferNode_get_output_shared(scopes, level, unwrap(maybe_buf_index))

\* the handles resolve at the innermost scope and apply their window
LocalBufferHandle_get_input(scopes, pos, index) ==
    map_window(LocalBufferNode_get_input(scopes, Len(scopes), index), pos)

LocalBufferHandle_get_input_shared(scopes, pos, index) ==
    map_window(LocalBufferNode_get_input_shared(scopes, Len(scopes), index), pos)

LocalBufferHandle_get_output(scopes, pos, index) ==
    map_window(LocalBufferNode_get_output(scopes, Len(scopes), index), pos)

LocalBufferHandle_get_output_shared(scopes, pos, index) ==
    map_window(LocalBufferNode_get_output_shared(scopes, Len(scopes), index), pos)

BufferHandle_get_input(scopes, pos, index) ==
    map_window(BufferNode_get_input(scopes, Len(scopes), index), pos)

BufferHandle_get_input_shared(scopes, pos, index) ==
    map_window(BufferNode_get_input_shared(scopes, Len(scopes), index), pos)

BufferHandle_get_output(scopes, pos, index) ==
    map_window(BufferNode_get_output(scopes, Len(scopes), index), pos)

BufferHandle_get_output_shared(scopes, pos, index) ==
    map_window(BufferNode_get_output_shared(scopes, Len(scopes), index), pos)

(***************************************************************************)
(* The state machine: one AudioGraphIO edited through its API, and the     *)
(* dual graph built from it.                                               *)
(*                                                                         *)
(* last and dual are history variables that observe one call, the final    *)
(* one of the run: every call is taken either unobserved (last stays       *)
(* NoCall and the run goes on) or observed (last is the call's name and    *)
(* result, dual the dual graph it built).  No call reads last or dual, so  *)
(* the graphs reached and the calls made on them are those of the          *)
(* unrestricted program.  An unobserved call that leaves the graph         *)
(* unchanged is a stuttering step and is not enumerated.                   *)
(***************************************************************************)
graph == [processors |-> processors, global |-> global]

\* the arguments the calls are made with: every index that is valid for some
\* node of the model and one that is out of range for all of them
NodeArgs == {Global} \cup {Processor(i) : i \in 0..(MaxSlots - 1)}
FromArgs ==
    {Port(i, Global) : i \in 0..MaxGlobal}
        \cup {Port(i, n) : i \in 0..MaxPorts, n \in NodeArgs \ {Global}}
ToArgs ==
    {Port(i, Global) : i \in 0..MaxGlobal}
        \cup {Port(i, n) : i \in 0..MaxOpp, n \in NodeArgs \ {Global}}

Call(op, res) == [op |-> op, res |-> res]
NoCall == Call("none", "none")
Observe(observed, call) == IF observed THEN call ELSE NoCall

NoDual ==
    [start |-> Global, self |-> with_global_io_config(0, 0),
     registered |-> {}, register_order |-> <<>>, panicked |-> FALSE,
     overflow |-> FALSE]

Handle(kind, pos) == [kind |-> kind, start |-> pos.start, len |-> pos.len]
NoHandle == [kind |-> "none", start |-> 0, len |-> 1]
Resolve(op, res) == [op |-> op, res |-> res]
NoResolve == Resolve("none", NoBuffer)

\* no scope chain exists while the graph is edited
BufferIdle ==
    /\ chain = <<>>
    /\ handle = NoHandle
    /\ resolved = NoResolve

\* an empty AudioGraphIO whose global node has ports on both sides
Init ==
    \E num_global_io_ports \in 1..MaxGlobal, num_opposite_global_io_ports \in 1..MaxGlobal :
        LET self == with_global_io_config(num_global_io_ports, num_opposite_global_io_ports)
        IN  /\ processors = self.processors
            /\ global = self.global
            /\ last = NoCall
            /\ dual = NoDual
            /\ BufferIdle

\* MaxSlots caps the slot indices handed out
InsertProcessor ==
    /\ last = NoCall
    /\ \E num_ports \in 1..MaxPorts, num_opposite_ports \in 0..MaxOpp, observed \in BOOLEAN :
        LET out == insert_processor(graph, num_ports, num_opposite_ports)
        IN  /\ out.index < MaxSlots
            /\ processors' = out.self.processors
            /\ global' = out.self.global
            /\ last' = Observe(observed, Call("insert_processor", "Ok"))
            /\ UNCHANGED <<dual, bvars>>

\* index ranges over the slots in use or used before: StableVec::remove is
\* defined (Some or None) for every index below its capacity
RemoveProcessor ==
    /\ last = NoCall
    /\ \E index \in 0..(processors.next_push_index - 1), observed \in BOOLEAN :
        LET out == remove_processor(graph, index)
        IN  /\ observed \/ out.self # graph
            /\ processors' = out.self.processors
            /\ global' = out.self.global
            /\ last' = Observe(observed, Call("remove_processor", out.res))
            /\ UNCHANGED <<dual, bvars>>

\* MaxEdges caps the number of edges stored in the graph
InsertEdge ==
    /\ last = NoCall
    /\ \E from \in FromArgs, to \in ToArgs, observed \in BOOLEAN :
        \E out \in insert_edge(graph, from, to) :
            /\ observed \/ out.self # graph
            /\ out.res = "Ok(true)" => Cardinality(Edges(graph)) < MaxEdges
            /\ processors' = out.self.processors
            /\ global' = out.self.global
            /\ last' = Observe(observed, Call("insert_edge", out.res))
            /\ UNCHANGED <<dual, bvars>>

RemoveEdge ==
    /\ last = NoCall
    /\ \E from \in FromArgs, to \in ToArgs, observed \in BOOLEAN :
        LET out == remove_edge(graph, from, to)
        IN  /\ observed \/ out.self # graph
            /\ processors' = out.self.processors
            /\ global' = out.self.global
            /\ last' = Observe(observed, Call("remove_edge", out.res))
            /\ UNCHANGED <<dual, bvars>>

\* outputs = inputs.with_opposite_config();
\* outputs.insert_opposite_ports(&inputs, start, &mut {}, &mut [])
BuildDual ==
    /\ last = NoCall
    /\ \E start \in NodeArgs :
        \E st \in insert_opposite_ports(iop_start(with_opposite_config(graph)), graph, start) :
            /\ dual' = [start |-> start, self |-> st.self,
                        registered |-> st.registered,
                        register_order |-> st.register_order,
                        panicked |-> st.panicked,
                        overflow |-> st.overflow]
            /\ last' = Call("insert_opposite_ports",
                            IF st.overflow THEN "Overflow"
                            ELSE IF st.panicked THEN "Panic" ELSE "Ok")
            /\ UNCHANGED <<processors, global, bvars>>

Next ==
    \/ InsertProcessor
    \/ RemoveProcessor
    \/ InsertEdge
    \/ RemoveEdge
    \/ BuildDual

Spec == Init /\ [][Next]_vars

(***************************************************************************)
(* The buffer state machine: a scope chain built from a top-level scope    *)
(* with append and with_indices, and the resolve operations of the handle  *)
(* of its innermost scope.  handle is [kind, start, len]: a                *)
(* LocalBufferHandle (the innermost scope has no index tables yet) or a    *)
(* BufferHandle.  resolved is a history variable that observes one resolve *)
(* operation, the final step of the run.  The window of an outer scope is  *)
(* never read by a resolve operation (the parent is the BufferNode), so    *)
(* only the window of the innermost handle is kept.                        *)
(***************************************************************************)
Windows == [start : 0..MaxStart, len : 1..MaxLen]

\* the Option<BufferIndex> of an input table, the Option<OutputBufferIndex> of
\* an output table
OutputBufferIndexArgs(n) ==
    {Master(i) : i \in 0..(n - 1)} \cup {Local(i) : i \in 0..(MaxBuffers - 1)}
BufferIndexArgs(n) ==
    {MasterInput(i) : i \in 0..(n - 1)} \cup {Output(b) : b \in OutputBufferIndexArgs(n)}
InputTables ==
    [0..(MaxTable - 1) -> {None} \cup {Some(b) : b \in BufferIndexArgs(MaxTable)}]
OutputTables ==
    [0..(MaxTable - 1) -> {None} \cup {Some(b) : b \in OutputBufferIndexArgs(MaxTable)}]

\* the port indices the handles are asked for: those of the table and one beyond
PortArgs == 0..MaxTable

\* the graph is not edited while buffers are resolved
GraphIdle ==
    LET self == with_global_io_config(1, 1)
    IN  /\ processors = self.processors
        /\ global = self.global
        /\ last = NoCall
        /\ dual = NoDual

\* LocalBufferNode::toplevel(buffers).with_buffer_pos(start, len)
InitBuffer ==
    /\ GraphIdle
    /\ \E buffers \in 0..MaxBuffers, pos \in Windows :
          /\ chain = <<toplevel(buffers)>>
          /\ handle = Handle("LocalBufferHandle", pos)
    /\ resolved = NoResolve

\* LocalBufferHandle::with_indices
WithIndices ==
    /\ resolved = NoResolve
    /\ handle.kind = "LocalBufferHandle"
    /\ \E inputs \in InputTables, outputs \in OutputTables :
          chain' = [chain EXCEPT ![Len(chain)] = with_indices(@, inputs, outputs)]
    /\ handle' = [handle EXCEPT !.kind = "BufferHandle"]
    /\ UNCHANGED <<resolved, gvars>>

\* BufferHandle::append: the child keeps the window of the handle
HandleAppend ==
    /\ resolved = NoResolve
    /\ handle.kind = "BufferHandle"
    /\ Len(chain) < MaxDepth
    /\ \E buffers \in 0..MaxBuffers : chain' = append(chain, buffers)
    /\ handle' = [handle EXCEPT !.kind = "LocalBufferHandle"]
    /\ UNCHANGED <<resolved, gvars>>

\* BufferNode::append followed by LocalBufferNode::with_buffer_pos: the child
\* gets a window of its own
NodeAppend ==
    /\ resolved = NoResolve
    /\ handle.kind = "BufferHandle"
    /\ Len(chain) < MaxDepth
    /\ \E buffers \in 0..MaxBuffers, pos \in Windows :
          /\ pos # [start |-> handle.start, len |-> handle.len]
          /\ chain' = append(chain, buffers)
          /\ handle' = Handle("LocalBufferHandle", pos)
    /\ UNCHANGED <<resolved, gvars>>

LocalGetInput ==
    /\ resolved = NoResolve
    /\ handle.kind = "LocalBufferHandle"
    /\ \E index \in BufferIndexArgs(MaxTable + 1) :
          resolved' = Resolve("LocalBufferHandle::get_input",
                              LocalBufferHandle_get_input(chain, handle, index))
    /\ UNCHANGED <<chain, handle, gvars>>

LocalGetInputShared ==
    /\ resolved = NoResolve
    /\ handle.kind = "LocalBufferHandle"
    /\ \E index \in BufferIndexArgs(MaxTable + 1) :
          resolved' = Resolve("LocalBufferHandle::get_input_shared",
                              LocalBufferHandle_get_input_shared(chain, handle, index))
    /\ UNCHANGED <<chain, handle, gvars>>

LocalGetOutput ==
    /\ resolved = NoResolve
    /\ handle.kind = "LocalBufferHandle"
    /\ \E index \in OutputBufferIndexArgs(MaxTable + 1) :
          resolved' = Resolve("LocalBufferHandle::get_output",
                              LocalBufferHandle_get_output(chain, handle, index))
    /\ UNCHANGED <<chain, handle, gvars>>

LocalGetOutputShared ==
    /\ resolved = NoResolve
    /\ handle.kind = "LocalBufferHandle"
    /\ \E index \in OutputBufferIndexArgs(MaxTable + 1) :
          resolved' = Resolve("LocalBufferHandle::get_output_shared",
                              LocalBufferHandle_get_output_shared(chain, handle, index))
    /\ UNCHANGED <<chain, handle, gvars>>

GetInput ==
    /\ resolved = NoResolve
    /\ handle.kind = "BufferHandle"
    /\ \E index \in PortArgs :
          resolved' = Resolve("BufferHandle::get_input",
                              BufferHandle_get_input(chain, handle, index))
    /\ UNCHANGED <<chain, handle, gvars>>

GetInputShared ==
    /\ resolved = NoResolve
    /\ handle.kind = "BufferHandle"
    /\ \E index \in PortArgs :
          resolved' = Resolve("BufferHandle::get_input_shared",
                              BufferHandle_get_input_shared(chain, handle, index))
    /\ UNCHANGED <<chain, handle, gvars>>

GetOutput ==
    /\ resolved = NoResolve
    /\ handle.kind = "BufferHandle"
    /\ \E index \in PortArgs :
          resolved' = Resolve("BufferHandle::get_output",
                              BufferHandle_get_output(chain, handle, index))
    /\ UNCHANGED <<chain, handle, gvars>>

GetOutputShared ==
    /\ resolved = NoResolve
    /\ handle.kind = "BufferHandle"
    /\ \E index \in PortArgs :
          resolved' = Resolve("BufferHandle::get_output_shared",
                              BufferHandle_get_output_shared(chain, handle, index))
    /\ UNCHANGED <<chain, handle, gvars>>

NextBuffer ==
    \/ WithIndices
    \/ HandleAppend
    \/ NodeAppend
    \/ LocalGetInput
    \/ LocalGetInputShared
    \/ LocalGetOutput
    \/ LocalGetOutputShared
    \/ GetInput
    \/ GetInputShared
    \/ GetOutput
    \/ GetOutputShared

SpecBuffer == InitBuffer /\ [][NextBuffer]_vars

(***************************************************************************)
(* insert_opposite_ports as a function of its argument inputs: the primary *)
(* graph is drawn from every AudioGraphIO of the bounds, whatever its      *)
(* edges (valid endpoints, at most MaxEdges of them, no cycle check), and  *)
(* the dual graph is built from it.                                        *)
(***************************************************************************)
\* the graphs with the given global and processor Interfaces and no edge
Shapes ==
    UNION {{[processors |-> [next_push_index |-> n, slots |-> slots],
             global |-> with_global_io_config(1, 1).global] :
               slots \in [0..(n - 1) -> {with_io_config(num_ports, num_opposite_ports) :
                                           num_ports \in 1..MaxPorts,
                                           num_opposite_ports \in 0..MaxOpp}]} :
              n \in 0..MaxSlots}

\* the pairs of valid endpoints of self
EdgeArgs(self) ==
    {e \in FromArgs \X ToArgs :
        /\ is_not_error(EdgeNotFound(self, e[1], e[2]))}

\* the sets of at most k of the edges of pairs
RECURSIVE EdgeSets(_, _)
EdgeSets(pairs, k) ==
    IF k = 0 THEN {{}}
    ELSE LET fewer == EdgeSets(pairs, k - 1)
         IN  fewer \cup {es \cup {e} : es \in fewer, e \in pairs}

\* self with the edges of es stored
RECURSIVE with_edges(_, _)
with_edges(self, es) ==
    IF es = {} THEN self
    ELSE LET e == CHOOSE x \in es : TRUE
             rest == with_edges(self, es \ {e})
         IN  set_connections(rest, e[1], unwrap(get_connections(rest, e[1])) \cup {e[2]})

InitInputs ==
    /\ \E shape \in Shapes : \E es \in EdgeSets(EdgeArgs(shape), MaxEdges) :
          /\ processors = with_edges(shape, es).processors
          /\ global = with_edges(shape, es).global
    /\ last = NoCall
    /\ dual = NoDual
    /\ BufferIdle

NextInputs == BuildDual

SpecInputs == InitInputs /\ [][NextInputs]_vars

(***************************************************************************)
(* Vocabulary of the properties                                            *)
(***************************************************************************)
\* the node-to-node edges of self between processor (non-global) nodes
ProcessorEdges(self) ==
    {<<e[1].node_index, e[2].node_index>> :
        e \in {d \in Edges(self) : ~is_global(d[1].node_index) /\ ~is_global(d[2].node_index)}}

\* the nodes reached from the nodes of seen by following zero or more edges of rel
RECURSIVE Closure(_, _)
Closure(seen, rel) ==
    LET more == seen \cup {e[2] : e \in {d \in rel : d[1] \in seen}}
    IN  IF more = seen THEN seen ELSE Closure(more, rel)

\* the nodes reached from n by one or more edges of rel
Successors(n, rel) == Closure({e[2] : e \in {d \in rel : d[1] = n}}, rel)

Acyclic(rel) == \A e \in rel : e[1] \notin Successors(e[1], rel)

\* the ports stored in the port sets of self
StoredPorts(self) == {e[2] : e \in Edges(self)}

\* from and to are valid endpoints of an edge of self
ValidEndpoints(self, from, to) ==
    /\ from.node_index \in Nodes(self)
    /\ from.index \in DOMAIN unwrap(get_node(self, from.node_index)).ports
    /\ to.node_index \in Nodes(self)
    /\ to.index < unwrap(get_node(self, to.node_index)).num_opposite_ports

(***************************************************************************)
(* C1: the graph restricted to processor nodes is acyclic in every         *)
(* reachable state; insert_edge between two processor nodes with valid     *)
(* endpoints returns CycleFound and leaves the graph unchanged whenever    *)
(* from.node is reachable from to.node (from.node = to.node included), and *)
(* otherwise the graph after the call is acyclic.                          *)
(***************************************************************************)
C1_AcyclicAndCyclesRejected ==
    /\ Acyclic(ProcessorEdges(graph))
    /\ last = NoCall =>
         \A from \in FromArgs, to \in ToArgs :
            (/\ ~is_global(from.node_index)
             /\ ~is_global(to.node_index)
             /\ ValidEndpoints(graph, from, to))
            => \A out \in insert_edge(graph, from, to) :
                  IF from.node_index \in
                        Closure({to.node_index}, ProcessorEdges(graph))
                  THEN out.res = "CycleFound" /\ out.self = graph
                  ELSE Acyclic(ProcessorEdges(out.self))

\* C1 without the panic: the same, with a call that aborts in place of one
\* that returns CycleFound allowed
C1_AcyclicUnlessPanic ==
    /\ Acyclic(ProcessorEdges(graph))
    /\ last = NoCall =>
         \A from \in FromArgs, to \in ToArgs :
            (/\ ~is_global(from.node_index)
             /\ ~is_global(to.node_index)
             /\ ValidEndpoints(graph, from, to))
            => \A out \in insert_edge(graph, from, to) :
                  IF from.node_index \in
                        Closure({to.node_index}, ProcessorEdges(graph))
                  THEN out.res \in {"CycleFound", "Panic"} /\ out.self = graph
                  ELSE Acyclic(ProcessorEdges(out.self))

(***************************************************************************)
(* C2: every Port stored in a port set of any Interface, the global one    *)
(* included, references a node that exists; after remove_processor(k) no   *)
(* port set contains a Port of Processor(k).                               *)
(***************************************************************************)
C2_NoDanglingPort ==
    \A port \in StoredPorts(graph) : port.node_index \in Nodes(graph)

(***************************************************************************)
(* C3: every Port to stored in a port set satisfies                        *)
(* to.index < num_opposite_ports of the Interface currently at to.node,    *)
(* and every port set belongs to a valid port index of its owning node.    *)
(***************************************************************************)
C3_StoredPortsInRange ==
    \A e \in Edges(graph) :
        /\ e[2].node_index \in Nodes(graph)
        /\ e[2].index < unwrap(get_node(graph, e[2].node_index)).num_opposite_ports
        /\ e[1].node_index \in Nodes(graph)
        /\ e[1].index \in 0..(num_ports_of(unwrap(get_node(graph, e[1].node_index))) - 1)

(***************************************************************************)
(* C4: the global node has either only outgoing connections or only        *)
(* incoming connections, never both, and no cycle of edges passes through  *)
(* the global node.                                                        *)
(***************************************************************************)
\* the node-to-node edges of self, the global node included
NodeEdges(self) == {<<e[1].node_index, e[2].node_index>> : e \in Edges(self)}

GlobalHasOutgoing(self) == \E e \in NodeEdges(self) : is_global(e[1])
GlobalHasIncoming(self) == \E e \in NodeEdges(self) : is_global(e[2])

C4_GlobalOneDirection ==
    /\ ~(GlobalHasOutgoing(graph) /\ GlobalHasIncoming(graph))
    /\ Global \notin Successors(Global, NodeEdges(graph))

(***************************************************************************)
(* C5: slot stability.  No step changes the slot index or the shape of an  *)
(* existing processor other than the one removed; insert_processor fills   *)
(* and returns the lowest currently-empty slot if one exists and otherwise *)
(* the next index past the end, never a slot that holds a live processor.  *)
(***************************************************************************)
Filled(vec) == DOMAIN vec.slots
EmptySlots(vec) == (0..(vec.next_push_index - 1)) \ Filled(vec)
Lowest(S) == CHOOSE i \in S : \A j \in S : i <= j
LowestEmptyOrEnd(vec) ==
    IF EmptySlots(vec) # {} THEN Lowest(EmptySlots(vec)) ELSE vec.next_push_index
Shape(interface) == <<num_ports_of(interface), interface.num_opposite_ports>>

C5_Step ==
    /\ \A num_ports \in 1..MaxPorts, num_opposite_ports \in 0..MaxOpp :
          LET out == insert_processor(graph, num_ports, num_opposite_ports)
          IN  /\ out.index = LowestEmptyOrEnd(processors)
              /\ Filled(out.self.processors) = Filled(processors) \cup {out.index}
    /\ \A index \in 0..(processors.next_push_index - 1) :
          LET out == remove_processor(graph, index)
          IN  /\ out.res = "true" <=> index \in Filled(processors)
              /\ Filled(out.self.processors) = Filled(processors) \ {index}
              /\ \A j \in Filled(processors) \ {index} :
                    Shape(out.self.processors.slots[j]) = Shape(processors.slots[j])
    /\ \A j \in Filled(processors) \cap Filled(processors') :
          Shape(processors'.slots[j]) = Shape(processors.slots[j])
    /\ Filled(processors') \ Filled(processors) # {} =>
          /\ Filled(processors') \ Filled(processors) = {LowestEmptyOrEnd(processors)}
          /\ \A j \in Filled(processors) :
                j \in Filled(processors') /\ processors'.slots[j] = processors.slots[j]
    /\ Filled(processors) \ Filled(processors') # {} =>
          /\ Cardinality(Filled(processors) \ Filled(processors')) = 1
          /\ Filled(processors') \subseteq Filled(processors)
    /\ last'.op = "insert_processor" => Filled(processors') \ Filled(processors) # {}

C5_SlotStability == [][C5_Step]_vars

\* insert_processor has just filled a freed slot while another stays free,
\* and a processor that was there before keeps its connections
C5_Witness ==
    /\ last = Call("insert_processor", "Ok")
    /\ EmptySlots(processors) # {}
    /\ \E e \in Edges(graph) : ~is_global(e[1].node_index)

(***************************************************************************)
(* C6: edge idempotence.  An insert_edge repeated right after one that     *)
(* returned Ok(true) returns Ok(false) and leaves every port set           *)
(* unchanged; remove_edge on valid endpoints returns Ok(false) and leaves  *)
(* the graph unchanged when the edge is absent, and returns Ok(true) and   *)
(* removes exactly that edge when it is present.                           *)
(***************************************************************************)
SameShape(self, other) ==
    /\ Nodes(self) = Nodes(other)
    /\ self.processors.next_push_index = other.processors.next_push_index
    /\ \A n \in Nodes(self) :
          Shape(unwrap(get_node(self, n))) = Shape(unwrap(get_node(other, n)))

C6_EdgeIdempotence ==
    last = NoCall =>
        \A from \in FromArgs, to \in ToArgs :
            /\ \A out \in insert_edge(graph, from, to) :
                  out.res = "Ok(true)" =>
                      \A again \in insert_edge(out.self, from, to) :
                          again.res = "Ok(false)" /\ again.self = out.self
            /\ ValidEndpoints(graph, from, to) =>
                  LET out == remove_edge(graph, from, to)
                  IN  IF <<from, to>> \in Edges(graph)
                      THEN /\ out.res = "Ok(true)"
                           /\ Edges(out.self) = Edges(graph) \ {<<from, to>>}
                           /\ SameShape(out.self, graph)
                      ELSE out.res = "Ok(false)" /\ out.self = graph

\* an insert_edge of an edge that is already stored has returned Ok(false)
C6_Witness ==
    /\ last = Call("insert_edge", "Ok(false)")
    /\ Edges(graph) # {}

(***************************************************************************)
(* C7: endpoint validation.  insert_edge and remove_edge return the        *)
(* edge-not-found error exactly when an endpoint is invalid; the error     *)
(* reports each endpoint on its own (node missing, node present but index  *)
(* invalid, valid); an invalid endpoint never yields CycleFound.           *)
(***************************************************************************)
\* what the error reports for the endpoint from
FromReport(self, from) ==
    IF from.node_index \notin Nodes(self) THEN None
    ELSE Some(from.index \in 0..(num_ports_of(unwrap(get_node(self, from.node_index))) - 1))

\* what the error reports for the endpoint to
ToReport(self, to) ==
    IF to.node_index \notin Nodes(self) THEN None
    ELSE Some(to.index < unwrap(get_node(self, to.node_index)).num_opposite_ports)

C7_EndpointValidation ==
    last = NoCall =>
        \A from \in FromArgs, to \in ToArgs :
            LET valid == FromReport(graph, from) = Some(TRUE) /\ ToReport(graph, to) = Some(TRUE)
                removed == remove_edge(graph, from, to)
            IN  /\ \A out \in insert_edge(graph, from, to) :
                      /\ out.res = "NotFound" <=> ~valid
                      /\ ~valid => out.res # "CycleFound"
                      /\ out.error.from_port = FromReport(graph, from)
                      /\ out.error.to_port = ToReport(graph, to)
                /\ removed.res = "NotFound" <=> ~valid
                /\ removed.error.from_port = FromReport(graph, from)
                /\ removed.error.to_port = ToReport(graph, to)

\* insert_edge has returned the edge-not-found error in a graph that has an
\* edge between two live processors and a slot whose processor is gone
C7_Witness ==
    /\ last = Call("insert_edge", "NotFound")
    /\ ProcessorEdges(graph) # {}
    /\ EmptySlots(processors) # {}

(***************************************************************************)
(* C8: all-or-nothing edits.  When insert_edge returns an error or         *)
(* remove_edge returns edge-not-found the whole graph is the one before    *)
(* the call; a successful insert_edge or remove_edge changes only the port *)
(* set addressed by from, by at most the one element to.                   *)
(***************************************************************************)
\* other differs from self at most in the port set addressed by from
OnlyPortSetChanged(self, other, from) ==
    /\ SameShape(self, other)
    /\ \A e \in (Edges(self) \cup Edges(other)) \ (Edges(self) \cap Edges(other)) :
          e[1] = from

C8_AllOrNothing ==
    last = NoCall =>
        \A from \in FromArgs, to \in ToArgs :
            LET removed == remove_edge(graph, from, to)
            IN  /\ \A out \in insert_edge(graph, from, to) :
                      IF out.res \in {"NotFound", "CycleFound"}
                      THEN out.self = graph
                      ELSE out.res \in {"Ok(true)", "Ok(false)"} =>
                              /\ OnlyPortSetChanged(graph, out.self, from)
                              /\ Edges(graph) \subseteq Edges(out.self)
                              /\ Edges(out.self) \subseteq Edges(graph) \cup {<<from, to>>}
                /\ IF removed.res = "NotFound"
                   THEN removed.self = graph
                   ELSE /\ OnlyPortSetChanged(graph, removed.self, from)
                        /\ Edges(removed.self) \subseteq Edges(graph)
                        /\ Edges(graph) \subseteq Edges(removed.self) \cup {<<from, to>>}

\* insert_edge has rejected an edge between processors as closing a cycle
C8_Witness ==
    /\ last = Call("insert_edge", "CycleFound")
    /\ ProcessorEdges(graph) # {}

(***************************************************************************)
(* C9: dual-graph consistency.  After insert_opposite_ports(inputs, start, *)
(* {}, []) on the empty mirror of inputs, the mirror holds the reverse of  *)
(* every edge of the primary graph and nothing else.                       *)
(***************************************************************************)
DualBuilt == last = Call("insert_opposite_ports", "Ok")

Reverse(edges) == {<<e[2], e[1]>> : e \in edges}

C9_MirrorIsReverse == DualBuilt => Edges(dual.self) = Reverse(Edges(graph))

\* the nodes whose port sets the traversal from start iterates: start and
\* every processor reached from it; the global node is entered only as start
Expanded(self, start) ==
    Closure({start}, {e \in NodeEdges(self) : ~is_global(e[2])})

\* C9 as amended: the mirror holds the reverse of exactly the edges stored in
\* the port sets of start and of the processors reached from start without
\* continuing through the global node, and has the opposite configuration
C9_MirrorIsReverseOfExpanded ==
    DualBuilt =>
        /\ Edges(dual.self) =
              Reverse({e \in Edges(graph) : e[1].node_index \in Expanded(graph, dual.start)})
        /\ SameShape(dual.self, with_opposite_config(graph))
        /\ \A n \in Nodes(graph) :
              Shape(unwrap(get_node(dual.self, n))) =
                 <<unwrap(get_node(graph, n)).num_opposite_ports,
                   num_ports_of(unwrap(get_node(graph, n)))>>

\* a dual graph has been built from a processor through a second processor,
\* and the primary graph has an edge the traversal did not reach
C9_Witness ==
    /\ DualBuilt
    /\ ~is_global(dual.start)
    /\ \E n \in Expanded(graph, dual.start) : n # dual.start
    /\ Cardinality(Edges(dual.self)) >= 2
    /\ Cardinality(Edges(graph)) > Cardinality(Edges(dual.self))

(***************************************************************************)
(* C10: registration order is dependency-first.  For every node n in       *)
(* register_order, every node n depends on through edges of inputs,        *)
(* directly or transitively, is in register_order at an earlier position.  *)
(***************************************************************************)
Position(order, n) == {k \in 1..Len(order) : order[k] = n}

C10_DependencyFirst ==
    DualBuilt =>
        \A k \in 1..Len(dual.register_order) :
            \A d \in Successors(dual.register_order[k], NodeEdges(graph)) :
                \E j \in Position(dual.register_order, d) : j < k

\* C10 where the global node has connections in one direction only
C10_DependencyFirstOneDirection ==
    (DualBuilt /\ C4_GlobalOneDirection) =>
        \A k \in 1..Len(dual.register_order) :
            \A d \in Successors(dual.register_order[k], NodeEdges(graph)) :
                \E j \in Position(dual.register_order, d) : j < k

(***************************************************************************)
(* Vocabulary of the buffer properties                                     *)
(***************************************************************************)
\* the innermost scope of the chain and its level
Leaf == chain[Len(chain)]
LeafLevel == Len(chain)

HasBufferHandle == resolved = NoResolve /\ handle.kind = "BufferHandle"
HasLocalBufferHandle == resolved = NoResolve /\ handle.kind = "LocalBufferHandle"

\* the physical buffer a table entry of the scope at level stands for: the
\* pair <<level of the owning scope, buffer>> in a set, or the empty set when
\* following the tables outward does not end at a buffer that exists
RECURSIVE InputSource(_, _, _)
RECURSIVE OutputSource(_, _, _)

EntrySource(scopes, level, entry) ==
    IF entry.tag = "Local"
    THEN IF entry.i < scopes[level].buffers THEN {<<level, entry.i>>} ELSE {}
    ELSE IF level = 1 THEN {}
    ELSE IF entry.tag = "MasterInput" THEN InputSource(scopes, level - 1, entry.i)
    ELSE OutputSource(scopes, level - 1, entry.i)

InputSource(scopes, level, i) ==
    IF i \notin DOMAIN scopes[level].inputs THEN {}
    ELSE UNION {EntrySource(scopes, level, entry) : entry \in scopes[level].inputs[i]}

OutputSource(scopes, level, i) ==
    IF i \notin DOMAIN scopes[level].outputs THEN {}
    ELSE UNION {EntrySource(scopes, level, entry) : entry \in scopes[level].outputs[i]}

\* elements [start, start + len) of buffer b, b a pair <<level, buffer>>
WindowOf(b, pos) == SomeBuffer(b[1], b[2], pos.start, pos.len)

\* the window of the handle lies within a buffer
WindowFits(pos) == pos.start + pos.len <= BufLen

(***************************************************************************)
(* C11: buffer resolution through the scope chain.  Resolving input i at a *)
(* BufferHandle whose table entry is MasterInput(j) yields what the        *)
(* parent's input j resolves to, an entry Local(j) yields this scope's own *)
(* buffer j, an entry Master(j) yields the parent's output j; the handle   *)
(* returns exactly elements [start, start + len) of the physical buffer,   *)
(* the window of the handle applied once whatever the depth of the chain   *)
(* (the buffer exists and the window lies within it).                      *)
(***************************************************************************)
C11_ResolutionThroughChain ==
    HasBufferHandle =>
        \A i \in DOMAIN Leaf.inputs : \A entry \in Leaf.inputs[i] :
            /\ (entry.tag = "MasterInput" /\ LeafLevel > 1) =>
                  /\ BufferNode_get_input(chain, LeafLevel, i)
                        = BufferNode_get_input(chain, LeafLevel - 1, entry.i)
                  /\ BufferNode_get_input_shared(chain, LeafLevel, i)
                        = BufferNode_get_input_shared(chain, LeafLevel - 1, entry.i)
            /\ (entry.tag = "Master" /\ LeafLevel > 1) =>
                  /\ BufferNode_get_input(chain, LeafLevel, i)
                        = BufferNode_get_output(chain, LeafLevel - 1, entry.i)
                  /\ BufferNode_get_input_shared(chain, LeafLevel, i)
                        = BufferNode_get_output_shared(chain, LeafLevel - 1, entry.i)
            /\ (entry.tag = "Local" /\ entry.i < Leaf.buffers) =>
                  /\ BufferNode_get_input(chain, LeafLevel, i)
                        = SomeBuffer(LeafLevel, entry.i, 0, BufLen)
                  /\ BufferNode_get_input_shared(chain, LeafLevel, i)
                        = SomeBuffer(LeafLevel, entry.i, 0, BufLen)
            /\ \A b \in InputSource(chain, LeafLevel, i) :
                  WindowFits(handle) =>
                      /\ BufferHandle_get_input(chain, handle, i) = WindowOf(b, handle)
                      /\ BufferHandle_get_input_shared(chain, handle, i) = WindowOf(b, handle)

\* the handle of the third scope has resolved an input declared MasterInput(0)
\* through a middle scope that forwards via Master to a buffer of the
\* top-level scope, with a window that does not start at 0
C11_Witness ==
    /\ resolved.op = "BufferHandle::get_input"
    /\ Len(chain) = 3
    /\ chain[3].inputs[0] = Some(MasterInput(0))
    /\ chain[2].inputs[0] = Some(Output(Master(0)))
    /\ chain[1].outputs[0] = Some(Local(0))
    /\ handle.start > 0
    /\ resolved.res = SomeBuffer(1, 0, handle.start, handle.len)

(***************************************************************************)
(* C12: resolving a MasterInput(i) or Master(i) index on a scope that has  *)
(* no parent aborts the operation, it returns neither a buffer nor None;   *)
(* resolution on a scope that has a parent never aborts for this reason.   *)
(***************************************************************************)
\* res is no abort of a missing parent, or the scope it happened in has none
AbortsOnlyWithoutParent(res) ==
    (res.kind = "Panic" /\ res.reason = "unwrap") => chain[res.level].parent = None

C12_NoParentAborts ==
    /\ HasBufferHandle =>
          /\ \A i \in PortArgs :
                /\ AbortsOnlyWithoutParent(BufferHandle_get_input(chain, handle, i))
                /\ AbortsOnlyWithoutParent(BufferHandle_get_input_shared(chain, handle, i))
                /\ AbortsOnlyWithoutParent(BufferHandle_get_output(chain, handle, i))
                /\ AbortsOnlyWithoutParent(BufferHandle_get_output_shared(chain, handle, i))
          /\ Leaf.parent = None =>
                /\ \A i \in DOMAIN Leaf.inputs : \A entry \in Leaf.inputs[i] :
                      entry.tag \in {"MasterInput", "Master"} =>
                          /\ BufferHandle_get_input(chain, handle, i)
                                = Abort("unwrap", LeafLevel)
                          /\ BufferHandle_get_input_shared(chain, handle, i)
                                = Abort("unwrap", LeafLevel)
                /\ \A i \in DOMAIN Leaf.outputs : \A entry \in Leaf.outputs[i] :
                      entry.tag = "Master" =>
                          /\ BufferHandle_get_output(chain, handle, i)
                                = Abort("unwrap", LeafLevel)
                          /\ BufferHandle_get_output_shared(chain, handle, i)
                                = Abort("unwrap", LeafLevel)
    /\ HasLocalBufferHandle =>
          /\ \A index \in BufferIndexArgs(MaxTable + 1) :
                /\ AbortsOnlyWithoutParent(LocalBufferHandle_get_input(chain, handle, index))
                /\ AbortsOnlyWithoutParent(
                       LocalBufferHandle_get_input_shared(chain, handle, index))
                /\ (Leaf.parent = None /\ index.tag \in {"MasterInput", "Master"}) =>
                       /\ LocalBufferHandle_get_input(chain, handle, index)
                             = Abort("unwrap", LeafLevel)
                       /\ LocalBufferHandle_get_input_shared(chain, handle, index)
                             = Abort("unwrap", LeafLevel)
          /\ \A index \in OutputBufferIndexArgs(MaxTable + 1) :
                /\ AbortsOnlyWithoutParent(LocalBufferHandle_get_output(chain, handle, index))
                /\ AbortsOnlyWithoutParent(
                       LocalBufferHandle_get_output_shared(chain, handle, index))
                /\ (Leaf.parent = None /\ index.tag = "Master") =>
                       /\ LocalBufferHandle_get_output(chain, handle, index)
                             = Abort("unwrap", LeafLevel)
                       /\ LocalBufferHandle_get_output_shared(chain, handle, index)
                             = Abort("unwrap", LeafLevel)

\* the handle of a top-level scope whose output table holds a Master index has
\* been asked for that output, and the operation has aborted
C12_Witness ==
    /\ resolved.op = "BufferHandle::get_output"
    /\ Len(chain) = 1
    /\ chain[1].parent = None
    /\ chain[1].outputs[0] = Some(Master(0))
    /\ resolved.res = Abort("unwrap", 1)

(***************************************************************************)
(* C15: unconnected ports yield no buffer.  Each of the four resolve       *)
(* operations returns None, without aborting, when the table entry at the  *)
(* requested port is None or the port index is beyond the end of the       *)
(* table; a None produced at an ancestor scope propagates unchanged to the *)
(* descendant that forwarded to it.                                        *)
(***************************************************************************)
Unconnected(table, i) == i \notin DOMAIN table \/ table[i] = None

C15_UnconnectedYieldsNone ==
    /\ chain # <<>> /\ resolved = NoResolve =>
          \A level \in 1..Len(chain), i \in PortArgs :
              /\ Unconnected(chain[level].inputs, i) =>
                    /\ BufferNode_get_input(chain, level, i) = NoBuffer
                    /\ BufferNode_get_input_shared(chain, level, i) = NoBuffer
              /\ Unconnected(chain[level].outputs, i) =>
                    /\ BufferNode_get_output(chain, level, i) = NoBuffer
                    /\ BufferNode_get_output_shared(chain, level, i) = NoBuffer
    /\ HasBufferHandle =>
          \A i \in PortArgs :
              /\ Unconnected(Leaf.inputs, i) =>
                    /\ BufferHandle_get_input(chain, handle, i) = NoBuffer
                    /\ BufferHandle_get_input_shared(chain, handle, i) = NoBuffer
              /\ Unconnected(Leaf.outputs, i) =>
                    /\ BufferHandle_get_output(chain, handle, i) = NoBuffer
                    /\ BufferHandle_get_output_shared(chain, handle, i) = NoBuffer
              /\ LeafLevel > 1 =>
                    /\ \A entry \in UNION table_get(Leaf.inputs, i) :
                          /\ (/\ entry.tag = "MasterInput"
                              /\ Unconnected(chain[LeafLevel - 1].inputs, entry.i)) =>
                                /\ BufferHandle_get_input(chain, handle, i) = NoBuffer
                                /\ BufferHandle_get_input_shared(chain, handle, i) = NoBuffer
                          /\ (/\ entry.tag = "Master"
                              /\ Unconnected(chain[LeafLevel - 1].outputs, entry.i)) =>
                                /\ BufferHandle_get_input(chain, handle, i) = NoBuffer
                                /\ BufferHandle_get_input_shared(chain, handle, i) = NoBuffer
                    /\ \A entry \in UNION table_get(Leaf.outputs, i) :
                          (/\ entry.tag = "Master"
                           /\ Unconnected(chain[LeafLevel - 1].outputs, entry.i)) =>
                              /\ BufferHandle_get_output(chain, handle, i) = NoBuffer
                              /\ BufferHandle_get_output_shared(chain, handle, i) = NoBuffer
                    \* a None that comes from any depth above the parent
                    /\ \A entry \in UNION table_get(Leaf.inputs, i) :
                          (/\ entry.tag = "MasterInput"
                           /\ BufferNode_get_input(chain, LeafLevel - 1, entry.i) = NoBuffer) =>
                              BufferHandle_get_input(chain, handle, i) = NoBuffer
                    /\ \A entry \in UNION table_get(Leaf.outputs, i) :
                          (/\ entry.tag = "Master"
                           /\ BufferNode_get_output(chain, LeafLevel - 1, entry.i) = NoBuffer) =>
                              BufferHandle_get_output(chain, handle, i) = NoBuffer
    /\ (HasLocalBufferHandle /\ LeafLevel > 1) =>
          /\ \A index \in BufferIndexArgs(MaxTable + 1) :
                (\/ /\ index.tag = "MasterInput"
                    /\ Unconnected(chain[LeafLevel - 1].inputs, index.i)
                 \/ /\ index.tag = "Master"
                    /\ Unconnected(chain[LeafLevel - 1].outputs, index.i)) =>
                    /\ LocalBufferHandle_get_input(chain, handle, index) = NoBuffer
                    /\ LocalBufferHandle_get_input_shared(chain, handle, index) = NoBuffer
          /\ \A index \in OutputBufferIndexArgs(MaxTable + 1) :
                (/\ index.tag = "Master"
                 /\ Unconnected(chain[LeafLevel - 1].outputs, index.i)) =>
                    /\ LocalBufferHandle_get_output(chain, handle, index) = NoBuffer
                    /\ LocalBufferHandle_get_output_shared(chain, handle, index) = NoBuffer

\* the handle of a nested scope has forwarded an output to its parent, whose
\* table entry is None, and has returned None; the window of the handle would
\* not fit a buffer
C15_Witness ==
    /\ resolved.op = "BufferHandle::get_output_shared"
    /\ Len(chain) >= 2
    /\ chain[Len(chain)].outputs[0] = Some(Master(0))
    /\ chain[Len(chain) - 1].outputs[0] = None
    /\ ~WindowFits(handle)
    /\ resolved.res = NoBuffer

(***************************************************************************)
(* C13: connected(from, to, {}) returns true exactly when to is reachable  *)
(* from from by following zero or more stored connections, and it          *)
(* terminates on every reachable graph, graphs with a closed walk through  *)
(* the global node included.                                               *)
(***************************************************************************)
Reachable(self, from_node, to_node) == to_node \in Closure({from_node}, NodeEdges(self))

C13_ConnectedIsReachability ==
    last = NoCall =>
        \A from_node \in Nodes(graph), to_node \in Nodes(graph) :
            \A o \in connected(graph, from_node, to_node, {}) :
                o.res = IF Reachable(graph, from_node, to_node) THEN "true" ELSE "false"

\* C13 with a query that aborts allowed in place of one that returns
C13_ConnectedUnlessPanic ==
    last = NoCall =>
        \A from_node \in Nodes(graph), to_node \in Nodes(graph) :
            \A o \in connected(graph, from_node, to_node, {}) :
                \/ o.res = "Panic"
                \/ o.res = IF Reachable(graph, from_node, to_node) THEN "true" ELSE "false"

\* C13 on the graphs in which every stored Port references a node that exists
C13_ConnectedWithoutDangling ==
    (last = NoCall /\ C2_NoDanglingPort) =>
        \A from_node \in Nodes(graph), to_node \in Nodes(graph) :
            \A o \in connected(graph, from_node, to_node, {}) :
                o.res = IF Reachable(graph, from_node, to_node) THEN "true" ELSE "false"

(***************************************************************************)
(* C16: graph edits never abort.  In every reachable state insert_edge and *)
(* remove_edge with arbitrary Port arguments complete and return Ok or a   *)
(* value-level error; the cycle search of insert_edge never dereferences a *)
(* node that does not exist.                                               *)
(***************************************************************************)
C16_EditsNeverAbort ==
    last = NoCall =>
        \A from \in FromArgs, to \in ToArgs :
            /\ \A out \in insert_edge(graph, from, to) :
                  out.res \in {"Ok(true)", "Ok(false)", "NotFound", "CycleFound"}
            /\ remove_edge(graph, from, to).res \in {"Ok(true)", "Ok(false)", "NotFound"}

\* C16 on the graphs in which every stored Port references a node that exists
C16_EditsNeverAbortWithoutDangling ==
    (last = NoCall /\ C2_NoDanglingPort) =>
        \A from \in FromArgs, to \in ToArgs :
            /\ \A out \in insert_edge(graph, from, to) :
                  out.res \in {"Ok(true)", "Ok(false)", "NotFound", "CycleFound"}
            /\ remove_edge(graph, from, to).res \in {"Ok(true)", "Ok(false)", "NotFound"}

(***************************************************************************)
(* C17: cycle rejection is precise.  insert_edge between two processor     *)
(* nodes with valid endpoints returns CycleFound only if there is already  *)
(* a path from to.node to from.node through processor nodes only; a route  *)
(* that exists only by going into the global node and out of it again does *)
(* not cause rejection.                                                    *)
(***************************************************************************)
C17_CycleRejectionPrecise ==
    last = NoCall =>
        \A from \in FromArgs, to \in ToArgs :
            (/\ ~is_global(from.node_index)
             /\ ~is_global(to.node_index)
             /\ ValidEndpoints(graph, from, to))
            => \A out \in insert_edge(graph, from, to) :
                  out.res = "CycleFound" =>
                      from.node_index \in Closure({to.node_index}, ProcessorEdges(graph))

\* C17 on the graphs whose global node has connections in one direction only
C17_CycleRejectionPreciseOneDirection ==
    (last = NoCall /\ C4_GlobalOneDirection) =>
        \A from \in FromArgs, to \in ToArgs :
            (/\ ~is_global(from.node_index)
             /\ ~is_global(to.node_index)
             /\ ValidEndpoints(graph, from, to))
            => \A out \in insert_edge(graph, from, to) :
                  out.res = "CycleFound" =>
                      from.node_index \in Closure({to.node_index}, ProcessorEdges(graph))

(***************************************************************************)
(* C18: a freshly inserted processor is isolated.  Right after             *)
(* insert_processor returns slot i, a slot freed by an earlier             *)
(* remove_processor included, all port sets of Processor(i) are empty and  *)
(* no port set of any other Interface, the global one included, contains a *)
(* Port whose node is Processor(i).                                        *)
(***************************************************************************)
Isolated(self, index) ==
    /\ \A e \in Edges(self) : e[1].node_index # Processor(index)
    /\ \A e \in Edges(self) : e[2].node_index # Processor(index)

C18_FreshProcessorIsolated ==
    last = NoCall =>
        \A num_ports \in 1..MaxPorts, num_opposite_ports \in 0..MaxOpp :
            LET out == insert_processor(graph, num_ports, num_opposite_ports)
            IN  Isolated(out.self, out.index)

\* C18 on the graphs in which every stored Port references a node that exists
C18_FreshProcessorIsolatedWithoutDangling ==
    (last = NoCall /\ C2_NoDanglingPort) =>
        \A num_ports \in 1..MaxPorts, num_opposite_ports \in 0..MaxOpp :
            LET out == insert_processor(graph, num_ports, num_opposite_ports)
            IN  Isolated(out.self, out.index)

(***************************************************************************)
(* C19: register_order has no duplicates and is exactly the dependency     *)
(* closure.  After insert_opposite_ports(inputs, start, {}, []) every node *)
(* appears in register_order at most once, the set of nodes in             *)
(* register_order equals the registered set, and it consists of exactly    *)
(* the nodes reachable from start by one or more edges of inputs without   *)
(* continuing the search through the global node.                          *)
(***************************************************************************)
\* the nodes reached from start by one or more edges, the walk not going on
\* from the global node once it has been reached
ReachedWithoutGlobal(self, start) ==
    {e[2] : e \in {d \in NodeEdges(self) : d[1] \in Expanded(self, start)}}

Listed(order) == {order[k] : k \in 1..Len(order)}

C19_RegisterOrderIsClosure ==
    DualBuilt =>
        /\ \A j \in 1..Len(dual.register_order), k \in 1..Len(dual.register_order) :
              dual.register_order[j] = dual.register_order[k] => j = k
        /\ Listed(dual.register_order) = dual.registered
        /\ Listed(dual.register_order) = ReachedWithoutGlobal(graph, dual.start)

\* the order built from a processor lists two nodes, one of them reached
\* along two paths
C19_Witness ==
    /\ DualBuilt
    /\ ~is_global(dual.start)
    /\ Len(dual.register_order) = 2
    /\ \E n \in Listed(dual.register_order) :
          Cardinality({e \in NodeEdges(graph) :
                          e[2] = n /\ e[1] \in Expanded(graph, dual.start)}) = 2

(***************************************************************************)
(* C14: insert_opposite_ports is cycle- and diamond-safe.  Started with an *)
(* empty registered set it terminates for every primary graph inputs, one  *)
(* with a cycle among processor nodes and one where a node is reachable    *)
(* along two paths included.                                               *)
(***************************************************************************)
DualCalled == last.op = "insert_opposite_ports"

C14_TerminatesOnEveryGraph == DualCalled => ~dual.overflow

\* a processor that the traversal from start iterates lies on a cycle of
\* edges between processors
CycleReached(self, start) ==
    \E n \in Expanded(self, start) :
        ~is_global(n) /\ n \in Successors(n, ProcessorEdges(self))

\* C14 as amended: the call returns (or aborts on a start node that does not
\* exist) when no processor the traversal reaches lies on a cycle of
\* processors, a node reached along two paths included, and exhausts the
\* stack when one does
C14_TerminatesUnlessCycleReached ==
    DualCalled =>
        /\ dual.overflow <=> (dual.start \in Nodes(graph) /\ CycleReached(graph, dual.start))
        /\ (dual.start \in Nodes(graph) /\ ~dual.overflow) => last.res = "Ok"

\* the traversal from a processor has returned on a graph in which a processor
\* is reached along two paths, directly and through another processor
C14_Witness ==
    /\ last = Call("insert_opposite_ports", "Ok")
    /\ ~dual.overflow
    /\ ~is_global(dual.start)
    /\ \E n \in dual.registered, m \in dual.registered :
          /\ ~is_global(n) /\ ~is_global(m) /\ n # m
          /\ {<<dual.start, n>>, <<dual.start, m>>, <<m, n>>} \subseteq NodeEdges(graph)

\* on the graphs built through the edit API the recursion never exceeds the
\* number of nodes
C14_TerminatesOnEditedGraphs == DualCalled => ~dual.overflow /\ Acyclic(ProcessorEdges(graph))

====
